---- MODULE Spec2Model ----
(***************************************************************************)
(* A model of dhcpkit's structured-element framework (src/dhcp/parsing.py) *)
(* and of the DHCPv6 message classes built on it                           *)
(* (src/dhcpkit/ipv6/messages.py): class dispatch on the wire tag,         *)
(* load_from / save / validate of the three message shapes, the           *)
(* may-contain occurrence tables, and RelayForwardMessage.wrap_response.   *)
(*                                                                         *)
(* Python values are modelled as follows.                                  *)
(*   bytes / bytearray   [kind, data]: data is a sequence of 0..255, kind  *)
(*                       tells the two types apart (isinstance(x, bytes)   *)
(*                       is false of a bytearray; == compares the data).   *)
(*   IPv6Address / None  [isAddr, packed]                                  *)
(*   a message           [cls, message_type, message_data, transaction_id, *)
(*                       hop_count, link_address, peer_address, options];  *)
(*                       the attributes a class does not have keep the     *)
(*                       filler values of Blank                            *)
(*   an option           [cls, data, iaid, echo_to_relay, relayed_message] *)
(*   an exception        the status field of a call's result               *)
(***************************************************************************)
EXTENDS Integers, Sequences, FiniteSets, TLC

VARIABLES
    may_contain,   \* class name -> the class's own _may_contain map
    element,       \* the message instance the operations act on
    response,      \* the response handed to wrap_response
    saved,         \* what element.save() returned last
    buffer,        \* the buffer of the last parse / load_from
    offset,        \* its offset argument
    length,        \* its length argument (NoLength: not given)
    outcome,       \* what the last operation returned or raised
    key_order,     \* the order the last containment check met the table's keys in
    declared,      \* <<class, kind>> -> the <<min, max>> add_may_contain was last called with
    asked,         \* the option the last may_contain / get_element_class got, with the answer
    op             \* the last operation

vars == <<may_contain, element, response, saved, buffer, offset, length, outcome, key_order,
          declared, asked, op>>

-----------------------------------------------------------------------------
(* Bounds of the model *)

\* most options in a drawn message
MaxOptions == 2
\* deepest nesting of relay messages in a drawn message
MaxDepth == 2
\* most bytes of payload an unknown message is loaded with
MaxData == 3
\* most bytes of padding in front of a message in a buffer
MaxPad == 1
\* most add_may_contain calls in a run
MaxAdds == 2

-----------------------------------------------------------------------------
(* Program constants *)

MSG_SOLICIT == 1
MSG_ADVERTISE == 2
MSG_REQUEST == 3
MSG_CONFIRM == 4
MSG_RENEW == 5
MSG_REBIND == 6
MSG_REPLY == 7
MSG_RELEASE == 8
MSG_DECLINE == 9
MSG_RECONFIGURE == 10
MSG_INFORMATION_REQUEST == 11
MSG_RELAY_FORW == 12
MSG_RELAY_REPL == 13

infinite == 2147483647

\* length=None, offset's and length's default
NoLength == -1

Min(a, b) == IF a < b THEN a ELSE b

-----------------------------------------------------------------------------
(* bytes and bytearray *)

Bytes(s) == [kind |-> "bytes", data |-> s]

ByteArray(s) == [kind |-> "bytearray", data |-> s]

\* len(b)
BLen(b) == Len(b.data)

\* b[lo:hi] for 0 <= lo, 0 <= hi: clipped to the value's length, of b's type
Slice(b, lo, hi) ==
    LET n == BLen(b)
        l == Min(lo, n)
        h == Min(hi, n)
    IN [kind |-> b.kind, data |-> IF h > l THEN SubSeq(b.data, l + 1, h) ELSE <<>>]

\* whether b[i] raises IndexError, for 0 <= i
OutOfRange(b, i) == i >= BLen(b)

\* b[i] for 0 <= i < len(b)
At(b, i) == b.data[i + 1]

\* a == b on bytes-like values: the contents decide, not the type
BytesEq(a, b) == a.data = b.data

-----------------------------------------------------------------------------
(* IPv6Address, as far as the messages use it *)

AddressLen == 16

\* None where an address is expected
NoAddress == [isAddr |-> FALSE, packed |-> <<>>]

\* IPv6Address(b): only a bytes object of 16 bytes is a packed address; anything
\* else is taken as text, which no bytes-like value's str() parses as
NewAddress(b) ==
    IF b.kind = "bytes" /\ BLen(b) = AddressLen
    THEN [status |-> "ok", value |-> [isAddr |-> TRUE, packed |-> b.data]]
    ELSE [status |-> "ValueError", value |-> NoAddress]

\* address.is_multicast: ff00::/8
IsMulticast(a) == a.isAddr /\ a.packed[1] = 255

-----------------------------------------------------------------------------
(* The classes *)

ClientServerClasses ==
    {"SolicitMessage", "AdvertiseMessage", "RequestMessage", "ConfirmMessage",
     "RenewMessage", "RebindMessage", "ReplyMessage", "ReleaseMessage",
     "DeclineMessage", "ReconfigureMessage", "InformationRequestMessage"}

RelayClasses == {"RelayForwardMessage", "RelayReplyMessage"}

MessageClasses ==
    {"Message", "UnknownMessage", "ClientServerMessage", "RelayServerMessage"}
        \cup ClientServerClasses \cup RelayClasses

\* the option classes of the model: the base class, the relay-message option, an
\* option that asks to be echoed, two kinds that carry an IAID and one that
\* carries only data
OptionClasses ==
    {"Option", "UnknownOption", "PlainOption", "IANAOption", "IATAOption",
     "RelayMessageOption", "EchoOption"}

\* the base class of a class ("object" above StructuredElement)
Parent(cls) ==
    CASE cls \in ClientServerClasses -> "ClientServerMessage"
      [] cls \in RelayClasses -> "RelayServerMessage"
      [] cls \in {"UnknownMessage", "ClientServerMessage", "RelayServerMessage"} -> "Message"
      [] cls \in {"Message", "Option"} -> "StructuredElement"
      [] cls \in OptionClasses \ {"Option"} -> "Option"
      [] OTHER -> "object"

RECURSIVE IsSubclass(_, _)
\* issubclass(cls, klass)
IsSubclass(cls, klass) ==
    IF cls = klass THEN TRUE
    ELSE IF cls = "object" THEN FALSE
    ELSE IsSubclass(Parent(cls), klass)

\* isinstance(x, klass) for a message or option record x; None is an instance of
\* no class of the model
IsInstance(x, klass) == IsSubclass(x.cls, klass)

\* the class attribute message_type
ClassMessageType(cls) ==
    CASE cls = "SolicitMessage" -> MSG_SOLICIT
      [] cls = "AdvertiseMessage" -> MSG_ADVERTISE
      [] cls = "RequestMessage" -> MSG_REQUEST
      [] cls = "ConfirmMessage" -> MSG_CONFIRM
      [] cls = "RenewMessage" -> MSG_RENEW
      [] cls = "RebindMessage" -> MSG_REBIND
      [] cls = "ReplyMessage" -> MSG_REPLY
      [] cls = "ReleaseMessage" -> MSG_RELEASE
      [] cls = "DeclineMessage" -> MSG_DECLINE
      [] cls = "ReconfigureMessage" -> MSG_RECONFIGURE
      [] cls = "InformationRequestMessage" -> MSG_INFORMATION_REQUEST
      [] cls = "RelayForwardMessage" -> MSG_RELAY_FORW
      [] cls = "RelayReplyMessage" -> MSG_RELAY_REPL
      [] OTHER -> 0

\* message_registry.registry after the module's register calls
Registry == [t \in {ClassMessageType(c) : c \in ClientServerClasses \cup RelayClasses}
                |-> CHOOSE c \in ClientServerClasses \cup RelayClasses : ClassMessageType(c) = t]

-----------------------------------------------------------------------------
(* Message and option records *)

\* the filler values of a message record; cls "None" is Python's None
Blank ==
    [cls |-> "None", message_type |-> 0, message_data |-> Bytes(<<>>),
     transaction_id |-> Bytes(<<>>), hop_count |-> 0, link_address |-> NoAddress,
     peer_address |-> NoAddress, options |-> <<>>]

\* UnknownMessage(message_type, message_data)
NewUnknown(message_type, message_data) ==
    [Blank EXCEPT !.cls = "UnknownMessage", !.message_type = message_type,
                  !.message_data = message_data]

\* cls(transaction_id, options) for a client-server class
NewClientServer(cls, transaction_id, options) ==
    [Blank EXCEPT !.cls = cls, !.message_type = ClassMessageType(cls),
                  !.transaction_id = transaction_id, !.options = options]

\* cls(hop_count, link_address, peer_address, options) for a relay class
NewRelay(cls, hop_count, link_address, peer_address, options) ==
    [Blank EXCEPT !.cls = cls, !.message_type = ClassMessageType(cls),
                  !.hop_count = hop_count, !.link_address = link_address,
                  !.peer_address = peer_address, !.options = options]

\* element_class(): the class called with no arguments. UnknownMessage's
\* message_type parameter has no default, so the call raises TypeError.
NewDefault(cls) ==
    CASE cls = "UnknownMessage" -> [status |-> "TypeError", element |-> Blank]
      [] IsSubclass(cls, "ClientServerMessage") ->
            [status |-> "ok", element |-> NewClientServer(cls, Bytes(<<0, 0, 0>>), <<>>)]
      [] IsSubclass(cls, "RelayServerMessage") ->
            [status |-> "ok", element |-> NewRelay(cls, 0, NoAddress, NoAddress, <<>>)]
      [] OTHER -> [status |-> "TypeError", element |-> Blank]

\* no iaid attribute
NoIaid == -1

\* an option object
NewOption(cls, data, iaid, echo, relayed) ==
    [cls |-> cls, data |-> data, iaid |-> iaid, echo_to_relay |-> echo,
     relayed_message |-> relayed]

\* the wire code of an option class
OptionCode(cls) ==
    CASE cls = "PlainOption" -> 1
      [] cls = "IANAOption" -> 3
      [] cls = "IATAOption" -> 4
      [] cls = "RelayMessageOption" -> 9
      [] cls = "EchoOption" -> 18
      [] OTHER -> 0

\* what the option registry holds for a code
OptionClassOf(code) ==
    CASE code = 1 -> "PlainOption"
      [] code = 3 -> "IANAOption"
      [] code = 4 -> "IATAOption"
      [] code = 9 -> "RelayMessageOption"
      [] code = 18 -> "EchoOption"
      [] OTHER -> "UnknownOption"

\* the echo_to_relay an option has when nothing sets it on the object
DefaultEcho(cls) == cls = "EchoOption"

-----------------------------------------------------------------------------
(* The may-contain tables.  mc maps a class to its own map, the first map of  *)
(* the ChainMap the metaclass gives it; the maps behind it are the parents'.  *)
(* A ChainMap iterates over the union of its maps' keys, a set of class       *)
(* objects: the order is not fixed by the program, and every operation that   *)
(* iterates over a table takes it as the argument order, a sequence that      *)
(* holds every key once.                                                      *)

ContainerClasses == MessageClasses \cup {"StructuredElement"}

RECURSIVE ChainKeys(_, _)
\* the keys of cls._may_contain
ChainKeys(mc, cls) ==
    IF cls \notin DOMAIN mc THEN {}
    ELSE DOMAIN mc[cls] \cup ChainKeys(mc, Parent(cls))

RECURSIVE ChainGet(_, _, _)
\* cls._may_contain[klass], for a key of it: the first map that holds it decides
ChainGet(mc, cls, klass) ==
    IF klass \in DOMAIN mc[cls] THEN mc[cls][klass]
    ELSE ChainGet(mc, Parent(cls), klass)

\* list(cls._may_contain.items()) when the keys come in the given order
Items(mc, cls, order) ==
    LET keys == SelectSeq(order, LAMBDA k : k \in ChainKeys(mc, cls))
    IN [i \in 1..Len(keys) |->
            [klass |-> keys[i],
             min_occurrence |-> ChainGet(mc, cls, keys[i])[1],
             max_occurrence |-> ChainGet(mc, cls, keys[i])[2]]]

\* the mutant of AddMayContainMap: the class has no map of its own, the entry
\* lands in its parent's map as well
AddMayContainShared(mc, cls, klass, min_occurrence, max_occurrence) ==
    [c \in DOMAIN mc |->
        IF c \in {cls, Parent(cls)}
        THEN (klass :> <<min_occurrence, max_occurrence>>) @@ mc[c]
        ELSE mc[c]]

\* cls.add_may_contain(klass, min_occurrence, max_occurrence): the tables after it.
\* The metaclass has given every class a _may_contain of its own, so the entry
\* goes into the class's first map.
AddMayContainMap(mc, cls, klass, min_occurrence, max_occurrence) ==
    [mc EXCEPT ![cls] = (klass :> <<min_occurrence, max_occurrence>>) @@ mc[cls]]

RECURSIVE ClassifyFrom(_, _, _)
\* the loop of get_element_class from the i-th item on
ClassifyFrom(items, i, x) ==
    IF i > Len(items) THEN "None"
    ELSE IF items[i].max_occurrence < 1 THEN "None"
    ELSE IF IsInstance(x, items[i].klass) THEN items[i].klass
    ELSE ClassifyFrom(items, i + 1, x)

\* cls.get_element_class(x): the class x counts as, or "None"
GetElementClass(mc, cls, x, order) == ClassifyFrom(Items(mc, cls, order), 1, x)

\* cls.may_contain(x)
MayContain(mc, cls, x, order) == GetElementClass(mc, cls, x, order) # "None"

RECURSIVE CheckOccurrenceMaxOnly(_, _, _)
\* the mutant of CheckOccurrence: too few of a kind pass
CheckOccurrenceMaxOnly(items, i, classes) ==
    IF i > Len(items) THEN "ok"
    ELSE LET count == Cardinality({n \in DOMAIN classes : classes[n] = items[i].klass})
         IN IF count > items[i].max_occurrence THEN "ValueError"
            ELSE CheckOccurrenceMaxOnly(items, i + 1, classes)

RECURSIVE CheckOccurrence(_, _, _)
\* the second loop of validate_contains from the i-th item on; classes holds the
\* class each element was counted as
CheckOccurrence(items, i, classes) ==
    IF i > Len(items) THEN "ok"
    ELSE LET count == Cardinality({n \in DOMAIN classes : classes[n] = items[i].klass})
         IN IF count > items[i].max_occurrence THEN "ValueError"
            ELSE IF count < items[i].min_occurrence THEN "ValueError"
            ELSE CheckOccurrence(items, i + 1, classes)

\* self.validate_contains(elements) for an instance of cls: "ok" or the exception
ValidateContains(mc, cls, elements, order) ==
    LET classes == [n \in 1..Len(elements) |-> GetElementClass(mc, cls, elements[n], order)]
    IN IF \E n \in 1..Len(elements) : classes[n] = "None" THEN "ValueError"
       ELSE CheckOccurrence(Items(mc, cls, order), 1, classes)

-----------------------------------------------------------------------------
(* validate *)

\* "if iaid:" for getattr(option, 'iaid', None): None and 0 are false
IaidTruthy(iaid) == iaid # NoIaid /\ iaid # 0

RECURSIVE IaidLoop(_, _, _, _, _, _)
\* the IAID loop of ClientServerMessage.validate from the i-th option on; iaids
\* holds the (class, iaid) pairs seen
IaidLoop(mc, cls, options, i, iaids, order) ==
    IF i > Len(options) THEN "ok"
    ELSE LET iaid == options[i].iaid
             option_class == GetElementClass(mc, cls, options[i], order)
         IN IF ~IaidTruthy(iaid) THEN IaidLoop(mc, cls, options, i + 1, iaids, order)
            ELSE IF <<option_class, iaid>> \in iaids THEN "ValueError"
            ELSE IaidLoop(mc, cls, options, i + 1,
                          iaids \cup {<<option_class, iaid>>}, order)

\* UnknownMessage.validate
ValidateUnknown(m) ==
    IF ~(0 <= m.message_type /\ m.message_type < 2 ^ 8) THEN "ValueError"
    ELSE IF m.message_data.kind # "bytes" THEN "ValueError"
    ELSE "ok"

\* ClientServerMessage.validate (an option's own validate is the base class's,
\* which checks nothing)
ValidateClientServer(mc, m, order) ==
    IF m.transaction_id.kind # "bytes" \/ BLen(m.transaction_id) # 3 THEN "ValueError"
    ELSE IF ValidateContains(mc, m.cls, m.options, order) # "ok" THEN "ValueError"
    ELSE IaidLoop(mc, m.cls, m.options, 1, {}, order)

\* the mutant of ValidateRelay: a multicast address passes
ValidateRelayAnyAddress(mc, m, order) ==
    IF ~(0 <= m.hop_count /\ m.hop_count < 2 ^ 8) THEN "ValueError"
    ELSE IF ~m.link_address.isAddr THEN "ValueError"
    ELSE IF ~m.peer_address.isAddr THEN "ValueError"
    ELSE ValidateContains(mc, m.cls, m.options, order)

\* RelayServerMessage.validate
ValidateRelay(mc, m, order) ==
    IF ~(0 <= m.hop_count /\ m.hop_count < 2 ^ 8) THEN "ValueError"
    ELSE IF ~m.link_address.isAddr \/ IsMulticast(m.link_address) THEN "ValueError"
    ELSE IF ~m.peer_address.isAddr \/ IsMulticast(m.peer_address) THEN "ValueError"
    ELSE ValidateContains(mc, m.cls, m.options, order)

\* m.validate(): "ok" or the exception raised
Validate(mc, m, order) ==
    CASE IsInstance(m, "UnknownMessage") -> ValidateUnknown(m)
      [] IsInstance(m, "ClientServerMessage") -> ValidateClientServer(mc, m, order)
      [] IsInstance(m, "RelayServerMessage") -> ValidateRelay(mc, m, order)
      [] OTHER -> "ok"

-----------------------------------------------------------------------------
(* save *)

\* n as two bytes, big-endian
U16(n) == <<n \div 256, n % 256>>

\* n as four bytes, big-endian
U32(n) == <<n \div 16777216, (n \div 65536) % 256, (n \div 256) % 256, n % 256>>

RECURSIVE Save(_, _, _)
RECURSIVE OptionSave(_, _, _)
RECURSIVE SaveOptions(_, _, _, _, _)

\* option.save(): code, length, payload.  The payload of a relay-message option
\* is its message's save(), of an IA option its iaid.
OptionSave(mc, o, order) ==
    LET inner == IF o.cls = "RelayMessageOption"
                 THEN IF o.relayed_message.cls = "None"
                      THEN [status |-> "ValueError", data |-> <<>>]
                      ELSE LET Payload(r) == [status |-> r.status, data |-> r.buffer.data]
                           IN Payload(Save(mc, o.relayed_message, order))
                 ELSE IF o.cls \in {"IANAOption", "IATAOption"}
                 THEN IF o.iaid < 0 THEN [status |-> "ValueError", data |-> <<>>]
                      ELSE [status |-> "ok", data |-> U32(o.iaid)]
                 ELSE [status |-> "ok", data |-> o.data]
    IN IF inner.status # "ok" THEN inner
       ELSE [status |-> "ok",
             data |-> U16(OptionCode(o.cls)) \o U16(Len(inner.data)) \o inner.data]

\* "for option in self.options: buffer.extend(option.save())" from the i-th
\* option on, acc being the buffer so far
SaveOptions(mc, options, i, acc, order) ==
    IF i > Len(options) THEN [status |-> "ok", data |-> acc]
    ELSE LET Step(r) ==
                IF r.status # "ok" THEN r
                ELSE SaveOptions(mc, options, i + 1, acc \o r.data, order)
         IN Step(OptionSave(mc, options[i], order))

\* the bytes save() writes before the options
SaveHeader(m) ==
    CASE IsInstance(m, "UnknownMessage") -> <<m.message_type>> \o m.message_data.data
      [] IsInstance(m, "ClientServerMessage") -> <<m.message_type>> \o m.transaction_id.data
      [] OTHER -> <<m.message_type, m.hop_count>>
                      \o m.link_address.packed \o m.peer_address.packed

\* m.save(): validate first, then a new bytearray with the header and every
\* option's save()
Save(mc, m, order) ==
    LET Built(r) ==
            [status |-> r.status,
             buffer |-> ByteArray(IF r.status = "ok" THEN r.data ELSE <<>>)]
        Checked(v) ==
            IF v # "ok" THEN [status |-> v, buffer |-> ByteArray(<<>>)]
            ELSE Built(SaveOptions(mc, m.options, 1, SaveHeader(m), order))
    IN Checked(Validate(mc, m, order))

-----------------------------------------------------------------------------
(* parse and load_from *)

\* Message.determine_class(buffer, offset) for offset < len(buffer)
DetermineClass(buf, off) ==
    IF At(buf, off) \in DOMAIN Registry THEN Registry[At(buf, off)] ELSE "UnknownMessage"

\* "length or (len(buffer) - offset)"
MaxLength(buf, off, len) ==
    IF len = NoLength \/ len = 0 THEN BLen(buf) - off ELSE len

\* what a call returns (status "ok") or raises; element is the instance as the
\* call leaves it
Result(status, consumed, x) == [status |-> status, consumed |-> consumed, element |-> x]

\* In the operators below "CHOOSE result \in {F(r) : r \in {call}} : TRUE" is F(call)
\* with the call evaluated once, as the code binds a call's result to a name.

RECURSIVE Parse(_, _, _, _, _)
RECURSIVE LoadFrom(_, _, _, _, _, _)
RECURSIVE OptionParse(_, _, _, _)
RECURSIVE OptionLoop(_, _, _, _, _, _, _)

\* Option.parse(buffer, offset): two bytes of code, two of length, the payload
OptionParse(mc, buf, off, order) ==
    IF off + 4 > BLen(buf) THEN Result("ValueError", 0, Blank)
    ELSE LET code == At(buf, off) * 256 + At(buf, off + 1)
             len == At(buf, off + 2) * 256 + At(buf, off + 3)
             cls == OptionClassOf(code)
             payload == Slice(buf, off + 4, off + 4 + len).data
         IN IF off + 4 + len > BLen(buf) THEN Result("ValueError", 0, Blank)
            ELSE IF cls = "RelayMessageOption"
            THEN LET Wrap(r) ==
                        IF r.status # "ok" THEN Result(r.status, 0, Blank)
                        ELSE IF r.consumed # len THEN Result("ValueError", 0, Blank)
                        ELSE Result("ok", 4 + len,
                                    NewOption(cls, <<>>, NoIaid, DefaultEcho(cls), r.element))
                 IN CHOOSE result \in
                        {Wrap(r) : r \in {Parse(mc, buf, off + 4, len, order)}} : TRUE
            ELSE IF cls \in {"IANAOption", "IATAOption"}
            THEN IF len # 4 THEN Result("ValueError", 0, Blank)
                 ELSE Result("ok", 4 + len,
                             NewOption(cls, <<>>,
                                       ((payload[1] * 256 + payload[2]) * 256 + payload[3]) * 256
                                            + payload[4],
                                       DefaultEcho(cls), Blank))
            ELSE Result("ok", 4 + len, NewOption(cls, payload, NoIaid, DefaultEcho(cls), Blank))

\* "while max_length > my_offset: ..." of load_from; the result's element is the
\* option list
OptionLoop(mc, buf, off, max_length, my_offset, options, order) ==
    LET Step(r) ==
            IF r.status # "ok" THEN Result(r.status, my_offset, options)
            ELSE OptionLoop(mc, buf, off, max_length, my_offset + r.consumed,
                            Append(options, r.element), order)
    IN IF max_length > my_offset
       THEN CHOOSE result \in
                {Step(r) : r \in {OptionParse(mc, buf, off + my_offset, order)}} : TRUE
       ELSE Result("ok", my_offset, options)

\* UnknownMessage.load_from
LoadUnknown(self, buf, off, len) ==
    IF OutOfRange(buf, off) THEN Result("IndexError", 0, self)
    ELSE LET s1 == [self EXCEPT !.message_type = At(buf, off)]
         IN IF len = NoLength THEN Result("TypeError", 0, s1)
            ELSE LET message_data_len == len - 1
                     s2 == [s1 EXCEPT !.message_data =
                                Slice(buf, off + 1, off + 1 + message_data_len)]
                 IN Result(ValidateUnknown(s2), 1 + message_data_len, s2)

\* ClientServerMessage.load_from
LoadClientServer(mc, self, buf, off, len, order) ==
    IF OutOfRange(buf, off) THEN Result("IndexError", 0, self)
    ELSE IF At(buf, off) # self.message_type THEN Result("ValueError", 0, self)
    ELSE LET s1 == [self EXCEPT !.transaction_id = Slice(buf, off + 1, off + 4)]
             Finish(loop, s2) ==
                IF loop.status # "ok" THEN Result(loop.status, 0, s2)
                ELSE Result(ValidateClientServer(mc, s2, order), loop.consumed, s2)
             Looped(loop) == Finish(loop, [s1 EXCEPT !.options = loop.element])
         IN CHOOSE result \in
                {Looped(loop) : loop \in {OptionLoop(mc, buf, off, MaxLength(buf, off, len),
                                                      4, s1.options, order)}} : TRUE

\* RelayServerMessage.load_from
LoadRelay(mc, self, buf, off, len, order) ==
    IF OutOfRange(buf, off) THEN Result("IndexError", 0, self)
    ELSE LET s1 == [self EXCEPT !.message_type = At(buf, off)]
         IN IF OutOfRange(buf, off + 1) THEN Result("IndexError", 0, s1)
            ELSE LET s2 == [s1 EXCEPT !.hop_count = At(buf, off + 1)]
                     link == NewAddress(Slice(buf, off + 2, off + 2 + AddressLen))
                     peer == NewAddress(Slice(buf, off + 2 + AddressLen,
                                              off + 2 + 2 * AddressLen))
                     s3 == [s2 EXCEPT !.link_address = link.value]
                     s4 == [s3 EXCEPT !.peer_address = peer.value]
                     Finish(loop, s5) ==
                        IF loop.status # "ok" THEN Result(loop.status, 0, s5)
                        ELSE Result(ValidateRelay(mc, s5, order), loop.consumed, s5)
                     Looped(loop) == Finish(loop, [s4 EXCEPT !.options = loop.element])
                 IN IF link.status # "ok" THEN Result(link.status, 0, s2)
                    ELSE IF peer.status # "ok" THEN Result(peer.status, 0, s3)
                    ELSE CHOOSE result \in
                            {Looped(loop) : loop \in
                                {OptionLoop(mc, buf, off, MaxLength(buf, off, len),
                                            2 + 2 * AddressLen, s4.options, order)}} : TRUE

\* self.load_from(buffer, offset, length)
LoadFrom(mc, self, buf, off, len, order) ==
    CASE IsInstance(self, "UnknownMessage") -> LoadUnknown(self, buf, off, len)
      [] IsInstance(self, "ClientServerMessage") -> LoadClientServer(mc, self, buf, off, len, order)
      [] IsInstance(self, "RelayServerMessage") -> LoadRelay(mc, self, buf, off, len, order)
      [] OTHER -> Result("TypeError", 0, self)

\* Message.parse(buffer, offset, length): the class the tag byte selects, a
\* default instance of it, load_from on that instance
Parse(mc, buf, off, len, order) ==
    IF OutOfRange(buf, off) THEN Result("IndexError", 0, Blank)
    ELSE LET made == NewDefault(DetermineClass(buf, off))
             Return(r) == IF r.status = "ok" THEN r ELSE Result(r.status, 0, Blank)
         IN IF made.status # "ok" THEN Result(made.status, 0, Blank)
            ELSE CHOOSE result \in
                    {Return(r) : r \in {LoadFrom(mc, made.element, buf, off, len, order)}} : TRUE

-----------------------------------------------------------------------------
(* __eq__ *)

RECURSIVE MessageEq(_, _)
RECURSIVE OptionEq(_, _)
RECURSIVE OptionsEq(_, _)

\* a == b for two option lists
OptionsEq(a, b) ==
    Len(a) = Len(b) /\ \A i \in 1..Len(a) : OptionEq(a[i], b[i])

\* a == b for two options: the same class and equal properties
OptionEq(a, b) ==
    /\ a.cls = b.cls
    /\ a.data = b.data
    /\ a.iaid = b.iaid
    /\ a.echo_to_relay = b.echo_to_relay
    /\ MessageEq(a.relayed_message, b.relayed_message)

\* StructuredElement.__eq__ on two messages (or None): the same class, and every
\* parameter of the class's __init__ equal
MessageEq(a, b) ==
    /\ a.cls = b.cls
    /\ CASE IsInstance(a, "UnknownMessage") ->
                a.message_type = b.message_type /\ BytesEq(a.message_data, b.message_data)
         [] IsInstance(a, "ClientServerMessage") ->
                BytesEq(a.transaction_id, b.transaction_id) /\ OptionsEq(a.options, b.options)
         [] IsInstance(a, "RelayServerMessage") ->
                /\ a.hop_count = b.hop_count
                /\ a.link_address = b.link_address
                /\ a.peer_address = b.peer_address
                /\ OptionsEq(a.options, b.options)
         [] OTHER -> TRUE

-----------------------------------------------------------------------------
(* The values the operations are tried on *)

\* every sequence over S of at most n elements
SeqsUpTo(S, n) == UNION {[1..k -> S] : k \in 0..n}

RECURSIVE Perms(_)
\* every sequence that holds each element of S once
Perms(S) ==
    IF S = {} THEN {<<>>}
    ELSE UNION {{<<x>> \o p : p \in Perms(S \ {x})} : x \in S}

\* every key of every table
AllKeys(mc) == UNION {DOMAIN mc[c] : c \in DOMAIN mc}

\* the orders a table's keys can come in
Orders(mc) == Perms(AllKeys(mc))

\* an address with the given first and last byte
Addr(first, last) ==
    [isAddr |-> TRUE,
     packed |-> [i \in 1..AddressLen |->
                    IF i = 1 THEN first ELSE IF i = AddressLen THEN last ELSE 0]]

\* no entries
EmptyMap == <<>>

\* no class has declared anything
NoTables == [c \in ContainerClasses |-> EmptyMap]

\* the tables after
\*   ClientServerMessage.add_may_contain(PlainOption)
\*   ClientServerMessage.add_may_contain(IANAOption, 0, 1)
\*   RelayServerMessage.add_may_contain(PlainOption)
\*   RelayServerMessage.add_may_contain(RelayMessageOption, 1, 1)
CodecTables ==
    AddMayContainMap(
      AddMayContainMap(
        AddMayContainMap(
          AddMayContainMap(NoTables, "ClientServerMessage", "PlainOption", 0, infinite),
          "ClientServerMessage", "IANAOption", 0, 1),
        "RelayServerMessage", "PlainOption", 0, infinite),
      "RelayServerMessage", "RelayMessageOption", 1, 1)

Plain(data) == NewOption("PlainOption", data, NoIaid, FALSE, Blank)

IA(cls, iaid) == NewOption(cls, <<>>, iaid, FALSE, Blank)

Echo(data) == NewOption("EchoOption", data, NoIaid, TRUE, Blank)

RelayOption(m) == NewOption("RelayMessageOption", <<>>, NoIaid, FALSE, m)

\* the options drawn for a client-server message
CodecLeaves == {Plain(<<>>), Plain(<<7>>), IA("IANAOption", 1)}

\* the client-server messages drawn: two classes with every transaction id and
\* option list, the other nine with a valid transaction id
CodecClientServer ==
    {NewClientServer(c, Bytes(t), o) :
        c \in {"SolicitMessage", "ReplyMessage"},
        t \in {<<0, 0, 9>>, <<0, 9>>, <<0, 0, 0, 9>>},
        o \in SeqsUpTo(CodecLeaves, MaxOptions)}
    \cup {NewClientServer(c, Bytes(<<0, 1, 2>>), o) :
        c \in ClientServerClasses, o \in {<<>>, <<Plain(<<7>>)>>}}

\* the unknown messages drawn
CodecUnknown ==
    {NewUnknown(t, Bytes(d)) :
        t \in {0, MSG_REPLY, 14, 255, 256}, d \in {<<>>, <<1>>, <<1, 2>>}}

RECURSIVE ForwardChains(_)
\* the relay-forward chains of depth d around a Solicit message
ForwardChains(d) ==
    IF d = 0 THEN {NewClientServer("SolicitMessage", Bytes(<<0, 0, 9>>), <<>>)}
    ELSE {NewRelay("RelayForwardMessage", d, Addr(32, d), Addr(254, d), <<RelayOption(c)>>) :
            c \in ForwardChains(d - 1)}

\* the options drawn for a relay message
CodecRelayLeaves ==
    {Plain(<<7>>), RelayOption(NewUnknown(14, Bytes(<<1>>)))}
        \cup {RelayOption(c) : c \in UNION {ForwardChains(d) : d \in 0..(MaxDepth - 1)}}

\* the relay messages drawn: every option list with valid fields, and every
\* combination of fields with one option list
CodecRelay ==
    {NewRelay(c, 7, Addr(32, 1), Addr(254, 3), o) :
        c \in RelayClasses, o \in SeqsUpTo(CodecRelayLeaves, MaxOptions)}
    \cup {NewRelay(c, h, l, p, <<RelayOption(NewClientServer("SolicitMessage", Bytes(<<0, 0, 9>>), <<>>))>>) :
        c \in RelayClasses, h \in {-1, 0, 255, 256},
        l \in {Addr(32, 1), Addr(255, 2), NoAddress},
        p \in {Addr(254, 3), Addr(255, 5)}}

CodecElements == CodecUnknown \cup CodecClientServer \cup CodecRelay

\* nothing asked
NoAsked == [option |-> NewOption("None", <<>>, NoIaid, FALSE, Blank), result |-> "None"]

\* nothing saved, nothing returned
NoSaved == [status |-> "none", buffer |-> ByteArray(<<>>)]

NoOutcome == Result("none", 0, Blank)

\* the bytes put in front of and behind a message in a buffer
Padding(n) == [i \in 1..n |-> 200 + i]

\* the calls tried on a saved message sv: the buffer as save() returned it or as
\* bytes, in front of and behind other bytes, with and without the message's
\* length; a wrong length; another tag byte; a byte short; the first byte of the
\* link or of the peer address of a relay message set to 255
Inputs(sv) ==
    LET n == BLen(sv)
        Call(b, o, l) == [buffer |-> b, offset |-> o, length |-> l]
        Retag(t) == <<t>> \o SubSeq(sv.data, 2, n)
        Patch(i) == [j \in 1..n |-> IF j = i THEN 255 ELSE sv.data[j]]
    IN {Call([kind |-> k, data |-> Padding(pre) \o sv.data \o trail], pre, l) :
            k \in {"bytes", "bytearray"}, pre \in 0..MaxPad,
            trail \in {<<>>, <<0, 9>>}, l \in {NoLength, n}}
       \cup {Call(Bytes(sv.data \o trail), 0, l) :
            trail \in {<<>>, <<0, 9>>}, l \in {0, 1, n - 1, n + 1}}
       \cup {Call(Bytes(Retag(t)), 0, l) :
            t \in {0, 14, 255, MSG_SOLICIT, MSG_RELAY_FORW}, l \in {NoLength, n}}
       \cup {Call(Bytes(SubSeq(sv.data, 1, n - 1)), 0, l) : l \in {NoLength, n}}
       \cup {Call(Bytes(Patch(i)), 0, n) :
            i \in IF n > 0 /\ sv.data[1] \in {MSG_RELAY_FORW, MSG_RELAY_REPL}
                  THEN {3, 3 + AddressLen} ELSE {}}

-----------------------------------------------------------------------------
(* Saving, parsing and loading messages *)

Init ==
    /\ may_contain = CodecTables
    /\ element \in CodecElements
    /\ response = Blank
    /\ saved = NoSaved
    /\ buffer = Bytes(<<>>)
    /\ offset = 0
    /\ length = NoLength
    /\ outcome = NoOutcome
    /\ key_order = <<>>
    /\ declared = EmptyMap
    /\ asked = NoAsked
    /\ op = "init"

\* element.save()
DoSave ==
    /\ op # "parse"
    /\ \E ord \in Orders(may_contain) :
            LET r == Save(may_contain, element, ord)
            IN /\ saved' = r
               /\ outcome' = Result(r.status, 0, Blank)
    /\ op' = "save"
    /\ buffer' = Bytes(<<>>)
    /\ offset' = 0
    /\ length' = NoLength
    /\ UNCHANGED <<may_contain, element, response, key_order, declared, asked>>

\* Message.parse(buffer, offset, length) on a buffer made of the saved message
DoParse ==
    /\ op = "save"
    /\ saved.status = "ok"
    /\ \E in \in Inputs(saved.buffer), ord \in Orders(may_contain) :
            /\ buffer' = in.buffer
            /\ offset' = in.offset
            /\ length' = in.length
            /\ outcome' = Parse(may_contain, in.buffer, in.offset, in.length, ord)
    /\ op' = "parse"
    /\ UNCHANGED <<may_contain, element, response, saved, key_order, declared, asked>>

\* element.load_from(buffer, offset, length) on a buffer made of the saved
\* message; the instance changes in place, also when the call raises
DoLoadFrom ==
    /\ op = "save"
    /\ saved.status = "ok"
    /\ \E in \in Inputs(saved.buffer), ord \in Orders(may_contain) :
            LET r == LoadFrom(may_contain, element, in.buffer, in.offset, in.length, ord)
            IN /\ Len(r.element.options) <= MaxOptions
               /\ BLen(r.element.message_data) <= MaxData
               /\ buffer' = in.buffer
               /\ offset' = in.offset
               /\ length' = in.length
               /\ outcome' = r
               /\ element' = r.element
    /\ op' = "load_from"
    /\ saved' = NoSaved
    /\ UNCHANGED <<may_contain, response, key_order, declared, asked>>

Next == DoSave \/ DoParse \/ DoLoadFrom

Spec == Init /\ [][Next]_vars

-----------------------------------------------------------------------------
(* Properties of parse, load_from and save *)

\* buffer[offset:] starts with the bytes of the saved message
HoldsSaved ==
    /\ saved.status = "ok"
    /\ Slice(buffer, offset, offset + BLen(saved.buffer)).data = saved.buffer.data

\* C1: whenever Message.parse is called on a buffer whose tag byte at the offset
\* is not one of 1..13, with no length or a length of at least 1, it returns an
\* UnknownMessage whose message_type is the tag byte and whose message_data is
\* the bytes after it up to the declared length.
C1_UnknownTagFallback ==
    (/\ op = "parse"
     /\ ~OutOfRange(buffer, offset)
     /\ At(buffer, offset) \notin MSG_SOLICIT..MSG_RELAY_REPL
     /\ (length = NoLength \/ length >= 1))
    => /\ outcome.status = "ok"
       /\ outcome.element.cls = "UnknownMessage"
       /\ outcome.element.message_type = At(buffer, offset)
       /\ outcome.element.message_data.data
            = Slice(buffer, offset + 1,
                    IF length = NoLength THEN BLen(buffer) ELSE offset + length).data

\* C2: whenever Message.parse is applied to the value element.save() returned,
\* it returns an element equal to the saved one.
C2_RoundTrip ==
    (/\ op = "parse"
     /\ saved.status = "ok"
     /\ buffer = saved.buffer
     /\ offset = 0
     /\ length = NoLength)
    => /\ outcome.status = "ok"
       /\ MessageEq(outcome.element, element)

\* C3: whenever Message.parse is called with declared length L on a bytes buffer
\* that holds the L bytes of a saved message at the offset, followed by anything,
\* it consumes exactly L bytes and returns the saved message, with nothing of the
\* bytes behind it.
C3_ExactConsumption ==
    (/\ op = "parse"
     /\ buffer.kind = "bytes"
     /\ HoldsSaved
     /\ length = BLen(saved.buffer))
    => /\ outcome.status = "ok"
       /\ outcome.consumed = length
       /\ MessageEq(outcome.element, element)

\* C4: whenever parse or load_from of a client-server or relay message succeeds
\* with a declared length L, the bytes consumed are at most L.
C4_NoOverrun ==
    (/\ op \in {"parse", "load_from"}
     /\ outcome.status = "ok"
     /\ length # NoLength
     /\ \/ IsInstance(outcome.element, "ClientServerMessage")
        \/ IsInstance(outcome.element, "RelayServerMessage"))
    => outcome.consumed <= length

\* the fields validate checks on a relay and on a client-server message
FieldsValid(m) ==
    /\ IsInstance(m, "RelayServerMessage") =>
            /\ m.hop_count \in 0..255
            /\ m.link_address.isAddr /\ m.link_address.packed[1] # 255
            /\ m.peer_address.isAddr /\ m.peer_address.packed[1] # 255
    /\ IsInstance(m, "ClientServerMessage") => Len(m.transaction_id.data) = 3

\* C10: a relay message with a multicast link or peer address or a hop count
\* outside 0..255, and a client-server message whose transaction id is not 3
\* bytes long, is never saved (save raises and returns no bytes) and never the
\* result of a successful parse or load_from.
C10_ValidationGate ==
    /\ (op = "save" /\ ~FieldsValid(element))
            => saved.status # "ok" /\ saved.buffer.data = <<>>
    /\ (op \in {"parse", "load_from"} /\ outcome.status = "ok")
            => FieldsValid(outcome.element)

\* C10's case: load_from of a relay message met a multicast address and raised
C10_Witness ==
    /\ op = "load_from"
    /\ IsInstance(element, "RelayServerMessage")
    /\ IsMulticast(element.link_address) \/ IsMulticast(element.peer_address)
    /\ outcome.status = "ValueError"

\* C13: load_from of a client-server or relay message on a buffer whose tag
\* byte is not the message_type of the instance's class raises, and after a
\* successful load_from the instance's message_type is that of its class.
C13_TagMismatch ==
    (/\ op = "load_from"
     /\ \/ IsInstance(element, "ClientServerMessage")
        \/ IsInstance(element, "RelayServerMessage"))
    => /\ (~OutOfRange(buffer, offset)
            /\ At(buffer, offset) # ClassMessageType(element.cls))
                => outcome.status # "ok"
       /\ outcome.status = "ok"
                => element.message_type = ClassMessageType(element.cls)

\* C17: after a successful load_from of a client-server or relay message the
\* instance's options are the options parsed from the buffer, those a new
\* instance of the class gets from the same call, whatever it held before.
C17_BufferDecides ==
    (/\ op = "load_from"
     /\ outcome.status = "ok"
     /\ \/ IsInstance(element, "ClientServerMessage")
        \/ IsInstance(element, "RelayServerMessage"))
    => \A ord \in Orders(may_contain) :
            LET new == LoadFrom(may_contain, NewDefault(element.cls).element,
                                buffer, offset, length, ord)
            IN new.status = "ok" => OptionsEq(element.options, new.element.options)

-----------------------------------------------------------------------------
(* Declaring and checking what a message may contain *)

\* the declarations drawn, <<class, kind, min_occurrence, max_occurrence>> for
\* class.add_may_contain(kind, min_occurrence, max_occurrence): a broad kind on
\* an ancestor, kinds with and without a limit, a forbidden kind, a required
\* kind, and a declaration on a sibling class
Declarations ==
    {<<"Message", "Option", 0, infinite>>,
     <<"ClientServerMessage", "IANAOption", 0, infinite>>,
     <<"ClientServerMessage", "IATAOption", 1, 1>>,
     <<"SolicitMessage", "IANAOption", 0, 1>>,
     <<"SolicitMessage", "IATAOption", 0, 0>>,
     <<"SolicitMessage", "PlainOption", 1, infinite>>,
     <<"ReplyMessage", "IANAOption", 0, 0>>}

\* the entries of all tables
Entries(mc) == UNION {{<<c, k>> : k \in DOMAIN mc[c]} : c \in DOMAIN mc}

\* the options drawn for a message that is validated
ContainLeaves ==
    {Plain(<<>>), IA("IANAOption", 0), IA("IANAOption", 1), IA("IATAOption", 1)}

\* the messages that are validated: a Solicit with every option list, a Reply
\* with options of one kind
ContainElements ==
    {NewClientServer("SolicitMessage", Bytes(<<0, 0, 9>>), o) :
        o \in SeqsUpTo(ContainLeaves, MaxOptions)}
    \cup {NewClientServer("ReplyMessage", Bytes(<<0, 0, 9>>), o) :
        o \in SeqsUpTo({IA("IANAOption", 1)}, MaxOptions)}

InitContains ==
    /\ may_contain = NoTables
    /\ element \in ContainElements
    /\ response = Blank
    /\ saved = NoSaved
    /\ buffer = Bytes(<<>>)
    /\ offset = 0
    /\ length = NoLength
    /\ outcome = NoOutcome
    /\ key_order = <<>>
    /\ declared = EmptyMap
    /\ asked = NoAsked
    /\ op = "init"

\* cls.add_may_contain(klass, min_occurrence, max_occurrence)
AddMayContain ==
    /\ Cardinality(Entries(may_contain)) < MaxAdds
    /\ \E d \in Declarations :
            /\ may_contain' = AddMayContainMap(may_contain, d[1], d[2], d[3], d[4])
            /\ declared' = (<<d[1], d[2]>> :> <<d[3], d[4]>>) @@ declared
    /\ outcome' = NoOutcome
    /\ key_order' = <<>>
    /\ asked' = NoAsked
    /\ op' = "add_may_contain"
    /\ UNCHANGED <<element, response, saved, buffer, offset, length>>

\* element.validate_contains(element.options)
DoValidateContains ==
    /\ \E ord \in Perms(ChainKeys(may_contain, element.cls)) :
            /\ key_order' = ord
            /\ outcome' = Result(ValidateContains(may_contain, element.cls,
                                                  element.options, ord), 0, Blank)
    /\ op' = "validate_contains"
    /\ UNCHANGED <<may_contain, element, response, saved, buffer, offset, length, declared, asked>>

\* element.validate()
DoValidate ==
    /\ \E ord \in Perms(ChainKeys(may_contain, element.cls)) :
            /\ key_order' = ord
            /\ outcome' = Result(ValidateClientServer(may_contain, element, ord), 0, Blank)
    /\ op' = "validate"
    /\ UNCHANGED <<may_contain, element, response, saved, buffer, offset, length, declared, asked>>

NextContains == AddMayContain \/ DoValidateContains \/ DoValidate

SpecContains == InitContains /\ [][NextContains]_vars

-----------------------------------------------------------------------------
(* Properties of the containment checks *)

\* the kind each option of the checked message classifies to
Classes ==
    [n \in 1..Len(element.options) |->
        GetElementClass(may_contain, element.cls, element.options[n], key_order)]

\* the number of options of the checked message that classify to kind k
Count(k) == Cardinality({n \in DOMAIN Classes : Classes[n] = k})

\* every option classifies to a kind and every entry of the message's table
\* has its number of options
WithinOccurrence ==
    /\ \A n \in DOMAIN Classes : Classes[n] # "None"
    /\ \A k \in ChainKeys(may_contain, element.cls) :
            /\ ChainGet(may_contain, element.cls, k)[1] <= Count(k)
            /\ Count(k) <= ChainGet(may_contain, element.cls, k)[2]

\* C5: validate_contains succeeds if and only if every element classifies to a
\* registered kind and, for every entry (kind, min, max) of the container's
\* table, the number of elements classified as that kind is between min and
\* max; so it fails with two options classified as a kind whose max is 1, and
\* with no option of a kind whose min is 1.
C5_Occurrence ==
    op = "validate_contains" =>
        /\ outcome.status = "ok" <=> WithinOccurrence
        /\ \A k \in ChainKeys(may_contain, element.cls) :
                /\ (ChainGet(may_contain, element.cls, k)[2] = 1 /\ Count(k) = 2)
                        => outcome.status = "ValueError"
                /\ (/\ ChainGet(may_contain, element.cls, k)[1] = 1
                    /\ \A n \in DOMAIN Classes : ~IsInstance(element.options[n], k))
                        => outcome.status = "ValueError"

\* C5's case: two options classified as a kind that may occur once were refused
C5_Witness ==
    /\ op = "validate_contains"
    /\ \E k \in ChainKeys(may_contain, element.cls) :
            ChainGet(may_contain, element.cls, k)[2] = 1 /\ Count(k) = 2
    /\ outcome.status = "ValueError"

\* two options that classify to the same kind carry the same iaid
SharedIaid ==
    \E i, j \in DOMAIN Classes :
        /\ i < j
        /\ Classes[i] # "None" /\ Classes[i] = Classes[j]
        /\ element.options[i].iaid # NoIaid
        /\ element.options[i].iaid = element.options[j].iaid

\* C6: ClientServerMessage.validate fails whenever two options classified as the
\* same kind carry the same iaid, whatever the value, 0 included; when no two
\* options of one classified kind share an iaid and the containment check
\* passes, it succeeds.
C6_IaidUnique ==
    op = "validate" =>
        /\ SharedIaid => outcome.status # "ok"
        /\ (~SharedIaid /\ WithinOccurrence) => outcome.status = "ok"

-----------------------------------------------------------------------------
(* Asking a class what it may contain *)

\* the options asked about
ClassifyOptions == {Plain(<<>>), IA("IANAOption", 1), IA("IATAOption", 1)}

\* the classes asked
ClassifyElements == {NewDefault(c).element : c \in {"SolicitMessage", "ReplyMessage"}}

InitClassify ==
    /\ may_contain = NoTables
    /\ element \in ClassifyElements
    /\ response = Blank
    /\ saved = NoSaved
    /\ buffer = Bytes(<<>>)
    /\ offset = 0
    /\ length = NoLength
    /\ outcome = NoOutcome
    /\ key_order = <<>>
    /\ declared = EmptyMap
    /\ asked = NoAsked
    /\ op = "init"

\* type(element).get_element_class(x)
DoGetElementClass ==
    /\ \E x \in ClassifyOptions :
       \E ord \in Perms(ChainKeys(may_contain, element.cls)) :
            /\ key_order' = ord
            /\ asked' = [option |-> x,
                         result |-> GetElementClass(may_contain, element.cls, x, ord)]
    /\ outcome' = NoOutcome
    /\ op' = "get_element_class"
    /\ UNCHANGED <<may_contain, element, response, saved, buffer, offset, length, declared>>

\* type(element).may_contain(x)
DoMayContain ==
    /\ \E x \in ClassifyOptions :
       \E ord \in Perms(ChainKeys(may_contain, element.cls)) :
            /\ key_order' = ord
            /\ asked' = [option |-> x,
                         result |-> IF MayContain(may_contain, element.cls, x, ord)
                                    THEN "True" ELSE "False"]
    /\ outcome' = NoOutcome
    /\ op' = "may_contain"
    /\ UNCHANGED <<may_contain, element, response, saved, buffer, offset, length, declared>>

NextClassify == AddMayContain \/ DoGetElementClass \/ DoMayContain

SpecClassify == InitClassify /\ [][NextClassify]_vars

-----------------------------------------------------------------------------
(* Properties of the tables and of classification *)

\* the kinds of the asked class's table that x is an instance of
KindsOf(x) == {k \in ChainKeys(may_contain, element.cls) : IsInstance(x, k)}

\* the kinds of the asked class's table that may not occur
Capped == {k \in ChainKeys(may_contain, element.cls) :
                ChainGet(may_contain, element.cls, k)[2] < 1}

\* C11: when the element is an instance of several kinds of the class's table,
\* get_element_class returns the most specific of them, a kind of the table that
\* is a subclass of every kind of the table the element is an instance of; an
\* instance of an unregistered subclass of one registered kind is classified as
\* that kind.  (Stated for tables in which no kind is capped at 0.)
C11_MostSpecific ==
    (/\ op = "get_element_class"
     /\ Capped = {}
     /\ KindsOf(asked.option) # {})
    => /\ asked.result \in KindsOf(asked.option)
       /\ \A k \in KindsOf(asked.option) : IsSubclass(asked.result, k)

\* C12: may_contain(e) is false when e is an instance of a kind capped at 0, and
\* true when e is an instance of no capped kind and of some kind of the table
\* whose max is at least 1.
C12_CapForbids ==
    op = "may_contain" =>
        /\ (KindsOf(asked.option) \cap Capped # {}) => asked.result = "False"
        /\ (/\ KindsOf(asked.option) \cap Capped = {}
            /\ KindsOf(asked.option) # {})
                => asked.result = "True"

RECURSIVE Lineage(_)
\* a class and its ancestors
Lineage(c) == IF c \notin ContainerClasses THEN {} ELSE {c} \cup Lineage(Parent(c))

\* the kinds class c declared itself
DeclaredKinds(c) == {p[2] : p \in {q \in DOMAIN declared : q[1] = c}}

RECURSIVE Nearest(_, _)
\* the first class from c upwards that declared kind k
Nearest(c, k) == IF k \in DeclaredKinds(c) THEN c ELSE Nearest(Parent(c), k)

\* the union of the declarations of c and of its ancestors, the nearest
\* declaration of a kind winning
Merged(c) ==
    [k \in UNION {DeclaredKinds(a) : a \in Lineage(c)} |-> declared[<<Nearest(c, k), k>>]]

\* the table class c sees
Effective(c) == [k \in ChainKeys(may_contain, c) |-> ChainGet(may_contain, c, k)]

\* C14: after any sequence of add_may_contain calls the table of every class is
\* the union of its own declarations and those of its ancestors, its own entry
\* winning where a kind is declared at several levels; so a call on a class
\* changes the table of no ancestor and of no sibling.
C14_InheritedTables ==
    \A c \in ContainerClasses : Effective(c) = Merged(c)

\* C14's case: a kind declared on a class and on its subclass; the subclass sees
\* its own entry, the class and the sibling see the class's
C14_Witness ==
    /\ op = "add_may_contain"
    /\ <<"ClientServerMessage", "IANAOption">> \in DOMAIN declared
    /\ <<"SolicitMessage", "IANAOption">> \in DOMAIN declared
    /\ Effective("SolicitMessage")["IANAOption"] = <<0, 1>>
    /\ Effective("ClientServerMessage")["IANAOption"] = <<0, infinite>>
    /\ Effective("ReplyMessage")["IANAOption"] = <<0, infinite>>

-----------------------------------------------------------------------------
(* RelayForwardMessage.wrap_response *)

\* the mutant of OptionRule: an option that is neither echoed nor a
\* relay-message option is echoed too
OptionRuleKeepAll(option) ==
    IF option.echo_to_relay THEN "echo"
    ELSE IF IsInstance(option, "RelayMessageOption") THEN
        IF IsInstance(option.relayed_message, "RelayForwardMessage") THEN "wrap"
        ELSE IF IsInstance(option.relayed_message, "ClientServerMessage") THEN "place"
        ELSE "raise"
    ELSE "echo"

\* the mutant of OptionRule: a relay-message option around anything else than a
\* forward-relay or client-server message is skipped
OptionRuleLenient(option) ==
    IF option.echo_to_relay THEN "echo"
    ELSE IF IsInstance(option, "RelayMessageOption") THEN
        IF IsInstance(option.relayed_message, "RelayForwardMessage") THEN "wrap"
        ELSE IF IsInstance(option.relayed_message, "ClientServerMessage") THEN "place"
        ELSE "drop"
    ELSE "drop"

\* the branch the loop of wrap_response takes for an option: append the option
\* itself, append a new relay-message option around the relayed message's own
\* wrap_response, append one around the response, raise, or nothing
OptionRule(option) ==
    IF option.echo_to_relay THEN "echo"
    ELSE IF IsInstance(option, "RelayMessageOption") THEN
        IF IsInstance(option.relayed_message, "RelayForwardMessage") THEN "wrap"
        ELSE IF IsInstance(option.relayed_message, "ClientServerMessage") THEN "place"
        ELSE "raise"
    ELSE "drop"

\* the mutant of PlaceResponse: the new option holds what the old one held
PlaceRelayed(option, resp) == RelayOption(option.relayed_message)

\* RelayMessageOption(relayed_message=response) where the option held a
\* client-server message
PlaceResponse(option, resp) == RelayOption(resp)

\* what a call of wrap_response leaves: the reply or the exception, and its
\* two arguments as they are afterwards
Wrapped(status, x, self, resp) ==
    [status |-> status, consumed |-> 0, element |-> x, self |-> self, response |-> resp]

\* the mutant of AppendOption: the reply is the forward message's own object
AppendOptionOnSelf(self, my_response, o) ==
    [self |-> [self EXCEPT !.message_type = my_response.message_type],
     my_response |-> [my_response EXCEPT !.options = Append(@, o)]]

\* my_response.options.append(o): my_response holds the list its constructor
\* made ("options or []" with no options given), so self keeps its own
AppendOption(self, my_response, o) ==
    [self |-> self,
     my_response |-> [my_response EXCEPT !.options = Append(@, o)]]

RECURSIVE WrapResponse(_, _)
RECURSIVE WrapLoop(_, _, _, _)
\* the loop of wrap_response from the i-th option of self on, my_response being
\* the reply built so far
WrapLoop(self, resp, i, my_response) ==
    IF i > Len(self.options) THEN Wrapped("ok", my_response, self, resp)
    ELSE LET option == self.options[i]
             rule == OptionRule(option)
             Step(st, r) == WrapLoop(st.self, r, i + 1, st.my_response)
             Relayed(m) == [self EXCEPT !.options[i].relayed_message = m]
             Nested(r) == IF r.status # "ok"
                          THEN Wrapped(r.status, Blank, Relayed(r.self), r.response)
                          ELSE Step(AppendOption(Relayed(r.self), my_response,
                                                 RelayOption(r.element)), r.response)
         IN CASE rule = "echo" -> Step(AppendOption(self, my_response, option), resp)
              [] rule = "wrap" -> Nested(WrapResponse(option.relayed_message, resp))
              [] rule = "place" ->
                    Step(AppendOption(self, my_response, PlaceResponse(option, resp)), resp)
              [] rule = "raise" -> Wrapped("ValueError", Blank, self, resp)
              [] OTHER -> WrapLoop(self, resp, i + 1, my_response)

\* self.wrap_response(response): the reply, or the exception and no reply
WrapResponse(self, resp) ==
    WrapLoop(self, resp, 1,
             NewRelay("RelayReplyMessage", self.hop_count, self.link_address,
                      self.peer_address, <<>>))

\* the client's message
ClientMessage == NewClientServer("SolicitMessage", Bytes(<<0, 0, 9>>), <<>>)

\* what the innermost relay-message option holds: the client's message, a
\* message of a class that is neither forward-relay nor client-server, None
RelayInner ==
    {ClientMessage, NewUnknown(14, Bytes(<<1>>)), Blank,
     NewRelay("RelayReplyMessage", 0, Addr(32, 9), Addr(254, 9), <<>>)}

RECURSIVE RelayHops(_)
\* the forward-relay messages of depth d that are relayed inside another one
RelayHops(d) ==
    IF d = 0 THEN RelayInner
    ELSE {NewRelay("RelayForwardMessage", d, Addr(32, d), Addr(254, d), o) :
            o \in UNION {{<<RelayOption(c)>>, <<Echo(<<d>>), Plain(<<7>>), RelayOption(c)>>} :
                            c \in RelayHops(d - 1)}}

\* a relay-message option that asks to be echoed
EchoedRelayOption == NewOption("RelayMessageOption", <<>>, NoIaid, TRUE, ClientMessage)

\* the options drawn for the outermost forward-relay message
RelayLeaves ==
    {Echo(<<1>>), Plain(<<7>>), EchoedRelayOption}
        \cup {RelayOption(c) : c \in UNION {RelayHops(d) : d \in 0..(MaxDepth - 1)}}

\* the outermost forward-relay messages
RelayElements ==
    {NewRelay("RelayForwardMessage", MaxDepth, Addr(32, MaxDepth), Addr(254, MaxDepth), o) :
        o \in SeqsUpTo(RelayLeaves, MaxOptions)}

\* the responses that are wrapped
Responses ==
    {NewClientServer("ReplyMessage", Bytes(<<0, 0, 9>>), <<>>),
     NewClientServer("AdvertiseMessage", Bytes(<<0, 0, 9>>), <<Plain(<<7>>)>>)}

InitRelay ==
    /\ may_contain = NoTables
    /\ element \in RelayElements
    /\ response \in Responses
    /\ saved = NoSaved
    /\ buffer = Bytes(<<>>)
    /\ offset = 0
    /\ length = NoLength
    /\ outcome = NoOutcome
    /\ key_order = <<>>
    /\ declared = EmptyMap
    /\ asked = NoAsked
    /\ op = "init"

\* element.wrap_response(response)
DoWrapResponse ==
    /\ op = "init"
    /\ LET r == WrapResponse(element, response)
       IN /\ outcome' = Result(r.status, 0, r.element)
          /\ element' = r.self
          /\ response' = r.response
    /\ op' = "wrap_response"
    /\ UNCHANGED <<may_contain, saved, buffer, offset, length, key_order, declared, asked>>

NextRelay == DoWrapResponse

SpecRelay == InitRelay /\ [][NextRelay]_vars

-----------------------------------------------------------------------------
(* Properties of wrap_response *)

\* the relay-message options of a message, in order
RelayOptionsOf(m) == SelectSeq(m.options, LAMBDA o : IsInstance(o, "RelayMessageOption"))

RECURSIVE IsChain(_)
\* m is a chain of forward-relay messages: every hop carries one relay-message
\* option, which does not ask to be echoed, and the innermost one wraps a
\* client-server message
IsChain(m) ==
    /\ m.cls = "RelayForwardMessage"
    /\ Len(RelayOptionsOf(m)) = 1
    /\ ~RelayOptionsOf(m)[1].echo_to_relay
    /\ \/ IsInstance(RelayOptionsOf(m)[1].relayed_message, "ClientServerMessage")
       \/ IsChain(RelayOptionsOf(m)[1].relayed_message)

RECURSIVE Hops(_)
\* the depth of a chain
Hops(m) ==
    IF IsInstance(RelayOptionsOf(m)[1].relayed_message, "ClientServerMessage") THEN 1
    ELSE 1 + Hops(RelayOptionsOf(m)[1].relayed_message)

RECURSIVE Mirrors(_, _, _)
\* reply is a chain of reply-relay messages with the hops of the chain fwd, the
\* innermost relay-message option holding resp
Mirrors(fwd, reply, resp) ==
    /\ reply.cls = "RelayReplyMessage"
    /\ reply.hop_count = fwd.hop_count
    /\ reply.link_address = fwd.link_address
    /\ reply.peer_address = fwd.peer_address
    /\ Len(RelayOptionsOf(reply)) = 1
    /\ IF IsInstance(RelayOptionsOf(fwd)[1].relayed_message, "ClientServerMessage")
       THEN RelayOptionsOf(reply)[1].relayed_message = resp
       ELSE Mirrors(RelayOptionsOf(fwd)[1].relayed_message,
                    RelayOptionsOf(reply)[1].relayed_message, resp)

RECURSIVE Innermost(_)
\* the client's message in a chain
Innermost(m) ==
    IF IsInstance(RelayOptionsOf(m)[1].relayed_message, "ClientServerMessage")
    THEN RelayOptionsOf(m)[1].relayed_message
    ELSE Innermost(RelayOptionsOf(m)[1].relayed_message)

RECURSIVE Holds(_, _)
\* x is m or is held, at any depth, by a relay-message option of m
Holds(m, x) ==
    \/ m = x
    \/ \E i \in 1..Len(m.options) :
            /\ IsInstance(m.options[i], "RelayMessageOption")
            /\ Holds(m.options[i].relayed_message, x)

\* C7: for a chain of n forward-relay messages, each hop carrying one
\* relay-message option and the innermost wrapping a client-server message,
\* wrap_response returns a chain of n reply-relay messages, hop i having the
\* hop_count, link_address and peer_address of forward hop i, whose innermost
\* relay-message option holds the response; the client's message is nowhere in
\* the result.
C7_ChainSubstitution ==
    (op = "wrap_response" /\ IsChain(element)) =>
        /\ outcome.status = "ok"
        /\ Mirrors(element, outcome.element, response)
        /\ ~Holds(outcome.element, Innermost(element))

\* C7's case: a chain of two hops around the client's message was answered
C7_Witness ==
    /\ op = "wrap_response"
    /\ IsChain(element)
    /\ Hops(element) >= 2
    /\ outcome.status = "ok"
    /\ Holds(outcome.element, response)

RECURSIVE EchoRule(_, _)
\* the options of reply are, in order, the options of fwd that ask to be echoed,
\* themselves, and a new relay-message option for every other relay-message
\* option of fwd; the same at every hop below
EchoRule(fwd, reply) ==
    LET kept == SelectSeq(fwd.options,
                          LAMBDA o : o.echo_to_relay \/ IsInstance(o, "RelayMessageOption"))
    IN /\ Len(reply.options) = Len(kept)
       /\ \A i \in 1..Len(kept) :
            IF kept[i].echo_to_relay THEN reply.options[i] = kept[i]
            ELSE /\ reply.options[i].cls = "RelayMessageOption"
                 /\ ~reply.options[i].echo_to_relay
                 /\ IsInstance(kept[i].relayed_message, "RelayForwardMessage")
                        => EchoRule(kept[i].relayed_message, reply.options[i].relayed_message)

\* C8: at every hop the options of the reply-relay message wrap_response makes
\* are, in the order of the forward message, each option that asks to be echoed,
\* unchanged, and one new relay-message option for each relay-message option
\* that does not; every other option is absent.
C8_EchoRule ==
    (op = "wrap_response" /\ outcome.status = "ok") => EchoRule(element, outcome.element)

\* C8's case: a hop with an echoed option, a dropped one and a relay-message
\* option was answered with the echoed option and a new relay-message option
C8_Witness ==
    /\ op = "wrap_response"
    /\ outcome.status = "ok"
    /\ \E k \in 1..Len(element.options), n \in 1..Len(outcome.element.options) :
            /\ element.options[k].cls = "RelayMessageOption"
            /\ ~element.options[k].echo_to_relay
            /\ element.options[k].relayed_message.options
                    = <<Echo(<<1>>), Plain(<<7>>), RelayOption(ClientMessage)>>
            /\ outcome.element.options[n].cls = "RelayMessageOption"
            /\ outcome.element.options[n].relayed_message.options
                    = <<Echo(<<1>>), RelayOption(response)>>

RECURSIVE InvalidEmbedding(_)
\* somewhere down the forward-relay chain a relay-message option that does not
\* ask to be echoed wraps neither a forward-relay nor a client-server message
InvalidEmbedding(m) ==
    \E i \in 1..Len(m.options) :
        /\ ~m.options[i].echo_to_relay
        /\ IsInstance(m.options[i], "RelayMessageOption")
        /\ IF IsInstance(m.options[i].relayed_message, "RelayForwardMessage")
           THEN InvalidEmbedding(m.options[i].relayed_message)
           ELSE ~IsInstance(m.options[i].relayed_message, "ClientServerMessage")

\* C9: if at any depth of the forward-relay chain a relay-message option that
\* does not ask to be echoed wraps an UnknownMessage, a RelayReplyMessage or no
\* message, wrap_response on the outermost message raises and returns nothing.
C9_InvalidEmbedding ==
    (op = "wrap_response" /\ InvalidEmbedding(element)) =>
        /\ outcome.status = "ValueError"
        /\ outcome.element = Blank

\* C9's case: the invalid embedding is one hop down
C9_Witness ==
    /\ op = "wrap_response"
    /\ \E i \in 1..Len(element.options) :
            /\ IsInstance(element.options[i], "RelayMessageOption")
            /\ ~element.options[i].echo_to_relay
            /\ IsInstance(element.options[i].relayed_message, "RelayForwardMessage")
            /\ InvalidEmbedding(element.options[i].relayed_message)
    /\ outcome.status = "ValueError"

RECURSIVE BuiltAnew(_, _, _)
\* reply is a RelayReplyMessage whose options are options of fwd that ask to be
\* echoed or relay-message options of its own around resp or around such a
\* reply to a forward-relay message relayed in fwd
BuiltAnew(fwd, reply, resp) ==
    /\ reply.cls = "RelayReplyMessage"
    /\ \A n \in 1..Len(reply.options) :
        \/ \E j \in 1..Len(fwd.options) :
                fwd.options[j].echo_to_relay /\ reply.options[n] = fwd.options[j]
        \/ /\ reply.options[n].cls = "RelayMessageOption"
           /\ ~reply.options[n].echo_to_relay
           /\ \/ reply.options[n].relayed_message = resp
              \/ \E j \in 1..Len(fwd.options) :
                    /\ IsInstance(fwd.options[j], "RelayMessageOption")
                    /\ IsInstance(fwd.options[j].relayed_message, "RelayForwardMessage")
                    /\ BuiltAnew(fwd.options[j].relayed_message,
                                 reply.options[n].relayed_message, resp)

-----------------------------------------------------------------------------
(* The option loop of load_from, one iteration at a time *)

\* my_offset is left where it was
AdvanceNowhere(my_offset, used_buffer) == my_offset

\* my_offset += used_buffer
Advance(my_offset, used_buffer) == my_offset + used_buffer

\* ClientServerMessage.load_from up to its loop: the tag and the transaction id
HeaderClientServer(self, buf, off) ==
    IF OutOfRange(buf, off) THEN Result("IndexError", 0, self)
    ELSE IF At(buf, off) # self.message_type THEN Result("ValueError", 0, self)
    ELSE Result("running", 4, [self EXCEPT !.transaction_id = Slice(buf, off + 1, off + 4)])

\* RelayServerMessage.load_from up to its loop: the tag, the hop count and the
\* two addresses
HeaderRelay(self, buf, off) ==
    IF OutOfRange(buf, off) THEN Result("IndexError", 0, self)
    ELSE LET s1 == [self EXCEPT !.message_type = At(buf, off)]
         IN IF OutOfRange(buf, off + 1) THEN Result("IndexError", 0, s1)
            ELSE LET s2 == [s1 EXCEPT !.hop_count = At(buf, off + 1)]
                     link == NewAddress(Slice(buf, off + 2, off + 2 + AddressLen))
                     peer == NewAddress(Slice(buf, off + 2 + AddressLen,
                                              off + 2 + 2 * AddressLen))
                     s3 == [s2 EXCEPT !.link_address = link.value]
                     s4 == [s3 EXCEPT !.peer_address = peer.value]
                 IN IF link.status # "ok" THEN Result(link.status, 0, s2)
                    ELSE IF peer.status # "ok" THEN Result(peer.status, 0, s3)
                    ELSE Result("running", 2 + 2 * AddressLen, s4)

\* the relay messages whose saved bytes are loaded: around a Solicit message with
\* an option, and around an unknown message behind another option
LoopRelay ==
    {NewRelay(c, 7, Addr(32, 1), Addr(254, 3), o) :
        c \in RelayClasses,
        o \in {<<RelayOption(NewClientServer("SolicitMessage", Bytes(<<0, 0, 9>>),
                                             <<Plain(<<7>>)>>))>>,
               <<Plain(<<7>>), RelayOption(NewUnknown(14, Bytes(<<1>>)))>>}}

\* the messages whose saved bytes are loaded
LoopElements == CodecClientServer \cup LoopRelay

\* a new instance of a class, and a call of its load_from on the bytes of a
\* saved message
InitLoop ==
    /\ may_contain = CodecTables
    /\ \E m \in LoopElements, ord \in Orders(CodecTables) :
            LET Calls(sv) ==
                    /\ sv.status = "ok"
                    /\ \E in \in Inputs(sv.buffer) :
                            /\ buffer = in.buffer
                            /\ offset = in.offset
                            /\ length = in.length
            IN /\ Calls(Save(CodecTables, m, ord))
               /\ element = NewDefault(m.cls).element
    /\ response = Blank
    /\ saved = NoSaved
    /\ outcome = NoOutcome
    /\ key_order = <<>>
    /\ declared = EmptyMap
    /\ asked = NoAsked
    /\ op = "init"

\* load_from up to its loop
LoadHeader ==
    /\ op = "init"
    /\ LET h == IF IsInstance(element, "ClientServerMessage")
                THEN HeaderClientServer(element, buffer, offset)
                ELSE HeaderRelay(element, buffer, offset)
       IN /\ outcome' = h
          /\ element' = h.element
          /\ op' = IF h.status = "running" THEN "loop" ELSE "load_from"
    /\ UNCHANGED <<may_contain, response, saved, buffer, offset, length,
                   key_order, declared, asked>>

\* one iteration: while max_length > my_offset, parse an option, append it,
\* advance my_offset
LoopStep ==
    /\ op = "loop"
    /\ MaxLength(buffer, offset, length) > outcome.consumed
    /\ \E ord \in Orders(may_contain) :
       \E r \in {OptionParse(may_contain, buffer, offset + outcome.consumed, ord)} :
            LET appended == [element EXCEPT !.options = Append(@, r.element)]
            IN IF r.status # "ok"
               THEN /\ outcome' = Result(r.status, 0, element)
                    /\ element' = element
                    /\ op' = "load_from"
               ELSE /\ outcome' = Result("running",
                                         Advance(outcome.consumed, r.consumed), appended)
                    /\ element' = appended
                    /\ op' = "loop"
    /\ UNCHANGED <<may_contain, response, saved, buffer, offset, length,
                   key_order, declared, asked>>

\* the loop is left: validate, return my_offset
LoopExit ==
    /\ op = "loop"
    /\ ~(MaxLength(buffer, offset, length) > outcome.consumed)
    /\ \E ord \in Orders(may_contain) :
            outcome' = Result(Validate(may_contain, element, ord), outcome.consumed, element)
    /\ op' = "load_from"
    /\ UNCHANGED <<may_contain, element, response, saved, buffer, offset, length,
                   key_order, declared, asked>>

NextLoop == LoadHeader \/ LoopStep \/ LoopExit

\* a call that has started keeps running: the interpreter takes the next step of
\* load_from as long as there is one
SpecLoop == InitLoop /\ [][NextLoop]_vars /\ WF_vars(NextLoop)

\* C16: every call of load_from on a client-server or relay message ends, by
\* returning or by raising; as long as the loop goes round, my_offset is below
\* the length to be consumed before the iteration and strictly larger after it
C16_Termination ==
    /\ <>(op = "load_from")
    /\ [][(op = "loop" /\ op' = "loop")
            => /\ outcome.consumed < MaxLength(buffer, offset, length)
               /\ outcome'.consumed > outcome.consumed]_vars

\* the loop has gone round twice and has bytes left to look at
C16_Witness ==
    /\ op = "loop"
    /\ Len(element.options) = 2
    /\ outcome.consumed < MaxLength(buffer, offset, length)

====
